---- MODULE Spec2Model ----
(***************************************************************************)
(* Iterated Prisoner's Dilemma engine: agent.py (AgentFactory, Agent and   *)
(* the six registered strategies) and run.py (PrisonersDilemma).           *)
(*                                                                         *)
(* One behaviour is one game object: it is constructed from a              *)
(* configuration (Init), run() is called on it up to MaxRuns times, one    *)
(* play_round per step, and visualize_games may be called between runs.    *)
(* Spec starts from the constructed game of a well-formed configuration;   *)
(* SpecConfig starts before construction, from configurations that may     *)
(* name an unregistered class, repeat a name or lack payoff entries.       *)
(***************************************************************************)
EXTENDS Integers, Sequences, FiniteSets, TLC

\* ------------------------------------------------------------------ bounds
MaxAgents == 3
MaxRounds == 3
MaxRuns == 2
\* agent lists that include a Random agent are explored up to this length
MaxAgentsWithRandom == 2
\* period of the stream of draws the generator is seeded with
SeedLen == 2
\* configurations that need not be well-formed are explored up to this many agents
MaxAgentsAnyConfig == 2

\* ------------------------------------------------------- values of the code
Actions == {"cooperate", "defect"}

\* the names registered with the factory (agent.py, @factory.register)
agent_classes ==
  {"TitForTat", "Random", "TitForTwoTats", "Grudger", "Cooperator", "Defector"}

\* agent names of the configurations explored: the k-th agent is NamePool[k]
NamePool == <<"n1", "n2", "n3", "n4", "n5">>

\* the payoff matrix of the spec's scenario, symmetric under swapping roles
StandardMatrix ==
  ("cooperate" :> ("cooperate" :> <<3, 3>> @@ "defect" :> <<0, 5>>)) @@
  ("defect" :> ("cooperate" :> <<5, 0>> @@ "defect" :> <<1, 1>>))

\* a matrix the engine accepts that is not symmetric under swapping roles
SkewMatrix ==
  ("cooperate" :> ("cooperate" :> <<3, 2>> @@ "defect" :> <<0, 5>>)) @@
  ("defect" :> ("cooperate" :> <<4, -1>> @@ "defect" :> <<1, 1>>))

Matrices == {StandardMatrix, SkewMatrix}

VARIABLES
  agents,           \* self.agents: sequence of [type, name] (label, description omitted)
  payoff_matrix,    \* self.payoff_matrix
  rounds,           \* self.rounds
  history,          \* history[k]: agents[k].history, a map name -> sequence of actions
  oponent_history,  \* oponent_history[k]: agents[k].oponent_history
  score,            \* score[k]: agents[k].score
  rng,              \* numpy's global generator: [seed, pos], the draws it will produce
  pc,               \* "new": not constructed; "idle": no call in progress;
                    \* "running": inside run(); "failed": a call raised
  error,            \* the exception that was raised, "none" if none
  round_no,         \* run(): rounds completed by the outer loop
  idx1, idx2,       \* run(): positions of agent1 and agent2 in self.agents
  runs,             \* number of run() calls that have returned
  calls,            \* the play_round invocations of the current (or last) run, in order
  received,         \* received[a][b]: payoffs play_round added to agents[a].score against agents[b]
  first_return,     \* <<agent state when the first run() returned>>, <<>> before that
  series            \* <<what visualize_games derived>>, or <<>> when not called since the last run began

vars ==
  <<agents, payoff_matrix, rounds, history, oponent_history, score, rng, pc, error,
    round_no, idx1, idx2, runs, calls, received, first_return, series>>

config == <<agents, payoff_matrix, rounds>>

N == Len(agents)
Idx == 1..N

Last(s) == s[Len(s)]

\* ------------------------------------------------------------ random source
\* np.random.choice(['cooperate', 'defect']): the next draw of the generator
Draw(g) == g.seed[g.pos + 1]
Advance(g) == [g EXCEPT !.pos = (g.pos + 1) % Len(g.seed)]

\* ------------------------------------------------------------- strategies
\* TitForTat repeating the first recorded action of the opponent ([0] for [-1])
TitForTat_first_action(h, oh, opponent_name) ==
  IF opponent_name \in DOMAIN h THEN oh[opponent_name][1] ELSE "cooperate"

\* TitForTat reading its own history in place of the opponent's
TitForTat_own_history(h, oh, opponent_name) ==
  IF opponent_name \in DOMAIN h THEN Last(h[opponent_name]) ELSE "cooperate"

TitForTat_choose_action(h, oh, opponent_name) ==
  IF opponent_name \in DOMAIN h THEN Last(oh[opponent_name]) ELSE "cooperate"

\* TitForTwoTats with "or" in place of "and"
TitForTwoTats_either(h, oh, opponent_name) ==
  IF opponent_name \in DOMAIN h
    THEN IF Len(h[opponent_name]) >= 2
           THEN IF \/ oh[opponent_name][Len(oh[opponent_name])] = "defect"
                   \/ oh[opponent_name][Len(oh[opponent_name]) - 1] = "defect"
                  THEN "defect"
                  ELSE "cooperate"
           ELSE "cooperate"
    ELSE "cooperate"

TitForTwoTats_choose_action(h, oh, opponent_name) ==
  IF opponent_name \in DOMAIN h
    THEN IF Len(h[opponent_name]) >= 2
           THEN IF /\ oh[opponent_name][Len(oh[opponent_name])] = "defect"
                   /\ oh[opponent_name][Len(oh[opponent_name]) - 1] = "defect"
                  THEN "defect"
                  ELSE "cooperate"
           ELSE "cooperate"
    ELSE "cooperate"

\* Grudger looking at the opponent's last action only
Grudger_last_only(h, oh, opponent_name) ==
  IF opponent_name \in DOMAIN h
    THEN IF Last(oh[opponent_name]) = "defect" THEN "defect" ELSE "cooperate"
    ELSE "cooperate"

\* Grudger holding against an opponent the defections of every opponent
Grudger_any_opponent(h, oh, opponent_name) ==
  IF opponent_name \in DOMAIN h
    THEN IF \E q \in DOMAIN oh : \E k \in 1..Len(oh[q]) : oh[q][k] = "defect"
           THEN "defect"
           ELSE "cooperate"
    ELSE "cooperate"

Grudger_choose_action(h, oh, opponent_name) ==
  IF opponent_name \in DOMAIN h
    THEN IF \E k \in 1..Len(oh[opponent_name]) : oh[opponent_name][k] = "defect"
           THEN "defect"
           ELSE "cooperate"
    ELSE "cooperate"

\* Cooperator answering a defection of the opponent's last round
Cooperator_retaliating(h, oh, opponent_name) ==
  IF opponent_name \in DOMAIN oh /\ Len(oh[opponent_name]) > 0 /\ Last(oh[opponent_name]) = "defect"
    THEN "defect"
    ELSE "cooperate"

Cooperator_choose_action(h, oh, opponent_name) == "cooperate"

Defector_choose_action(h, oh, opponent_name) == "defect"

Random_choose_action(g) == Draw(g)

\* agent.choose_action(opponent_name), dispatched on the agent's class; h and oh
\* are the agent's history and oponent_history, g the generator's state
choose_action(type, h, oh, opponent_name, g) ==
  CASE type = "TitForTat" -> TitForTat_choose_action(h, oh, opponent_name)
    [] type = "Random" -> Random_choose_action(g)
    [] type = "TitForTwoTats" -> TitForTwoTats_choose_action(h, oh, opponent_name)
    [] type = "Grudger" -> Grudger_choose_action(h, oh, opponent_name)
    [] type = "Cooperator" -> Cooperator_choose_action(h, oh, opponent_name)
    [] type = "Defector" -> Defector_choose_action(h, oh, opponent_name)

\* the generator after agent.choose_action: only RandomAgent draws
rng_after(type, g) == IF type = "Random" THEN Advance(g) ELSE g

\* ------------------------------------------------------------------- Agent
\* update_history with the copy-paste slip of appending the agent's own action to both lists
update_history_own_twice(st, a, opponent_name, action, oponent_action) ==
  LET h0 == IF opponent_name \in DOMAIN st.history[a]
              THEN st.history[a]
              ELSE (opponent_name :> <<>>) @@ st.history[a]
      o0 == IF opponent_name \in DOMAIN st.history[a]
              THEN st.oponent_history[a]
              ELSE (opponent_name :> <<>>) @@ st.oponent_history[a]
  IN  [history |-> [st.history EXCEPT ![a] = [h0 EXCEPT ![opponent_name] = Append(@, action)]],
       oponent_history |->
         [st.oponent_history EXCEPT ![a] = [o0 EXCEPT ![opponent_name] = Append(@, action)]]]

\* update_history without the "not in" test: the lists are emptied on every call
update_history_reset(st, a, opponent_name, action, oponent_action) ==
  [history |->
     [st.history EXCEPT ![a] =
        (opponent_name :> <<action>>) @@ st.history[a]],
   oponent_history |->
     [st.oponent_history EXCEPT ![a] =
        (opponent_name :> <<oponent_action>>) @@ st.oponent_history[a]]]

\* update_history with insert(0, .) in place of append
update_history_prepend(st, a, opponent_name, action, oponent_action) ==
  LET h0 == IF opponent_name \in DOMAIN st.history[a]
              THEN st.history[a]
              ELSE (opponent_name :> <<>>) @@ st.history[a]
      o0 == IF opponent_name \in DOMAIN st.history[a]
              THEN st.oponent_history[a]
              ELSE (opponent_name :> <<>>) @@ st.oponent_history[a]
      h1 == [h0 EXCEPT ![opponent_name] = <<action>> \o @]
      o1 == [o0 EXCEPT ![opponent_name] = <<oponent_action>> \o @]
  IN  [history |-> [st.history EXCEPT ![a] = h1],
       oponent_history |-> [st.oponent_history EXCEPT ![a] = o1]]

\* Agent.update_history on agent a of state st = [history, oponent_history]
update_history(st, a, opponent_name, action, oponent_action) ==
  LET h0 == IF opponent_name \in DOMAIN st.history[a]
              THEN st.history[a]
              ELSE (opponent_name :> <<>>) @@ st.history[a]
      o0 == IF opponent_name \in DOMAIN st.history[a]
              THEN st.oponent_history[a]
              ELSE (opponent_name :> <<>>) @@ st.oponent_history[a]
      h1 == [h0 EXCEPT ![opponent_name] = Append(@, action)]
      o1 == [o0 EXCEPT ![opponent_name] = Append(@, oponent_action)]
  IN  [history |-> [st.history EXCEPT ![a] = h1],
       oponent_history |-> [st.oponent_history EXCEPT ![a] = o1]]

\* update_score with = in place of +=
update_score_assign(sc, a, payoff) == [sc EXCEPT ![a] = payoff]

\* Agent.update_score on agent a of the score table sc
\* update_score on a score shared by all agents
update_score_shared(sc, a, payoff) == [k \in DOMAIN sc |-> sc[k] + payoff]

update_score(sc, a, payoff) == [sc EXCEPT ![a] = @ + payoff]

\* -------------------------------------------------------- PrisonersDilemma
get_payoffs(action1, action2) == payoff_matrix[action1][action2]

\* get_payoffs: the two dictionary lookups succeed (no KeyError)
in_matrix(action1, action2) ==
  action1 \in DOMAIN payoff_matrix /\ action2 \in DOMAIN payoff_matrix[action1]

\* play_round in which agent1's action is recorded with agent2 before agent2
\* chooses, so that agent2 sees the current round's action of agent1
play_round_leaky(a1, a2) ==
  LET name1 == agents[a1].name
      name2 == agents[a2].name
      action1 == choose_action(agents[a1].type, history[a1], oponent_history[a1], name2, rng)
      rng1 == rng_after(agents[a1].type, rng)
      st0 == [history |-> history, oponent_history |-> oponent_history]
      seen == update_history(st0, a2, name1, "cooperate", action1)
      action2 == choose_action(agents[a2].type, seen.history[a2], seen.oponent_history[a2],
                               name1, rng1)
      rng2 == rng_after(agents[a2].type, rng1)
      st1 == update_history(st0, a1, name2, action1, action2)
      st2 == update_history(st1, a2, name1, action2, action1)
      found == in_matrix(action1, action2)
      payoffs == IF found THEN get_payoffs(action1, action2) ELSE <<0, 0>>
      sc1 == update_score(score, a1, payoffs[1])
      sc2 == update_score(sc1, a2, payoffs[2])
  IN  [history |-> st2.history, oponent_history |-> st2.oponent_history,
       score |-> IF found THEN sc2 ELSE score, rng |-> rng2,
       action1 |-> action1, action2 |-> action2,
       payoff1 |-> payoffs[1], payoff2 |-> payoffs[2],
       error |-> IF found THEN "none" ELSE "KeyError"]

\* play_round(agent1, agent2) with agent1 = agents[a1], agent2 = agents[a2]:
\* the state it leaves, and the actions and payoffs of the round. When get_payoffs
\* raises KeyError (line 41) both update_history calls are done and no score is
\* updated; payoff1 and payoff2 are then not meaningful.
play_round(a1, a2) ==
  LET name1 == agents[a1].name
      name2 == agents[a2].name
      action1 == choose_action(agents[a1].type, history[a1], oponent_history[a1], name2, rng)
      rng1 == rng_after(agents[a1].type, rng)
      action2 == choose_action(agents[a2].type, history[a2], oponent_history[a2], name1, rng1)
      rng2 == rng_after(agents[a2].type, rng1)
      st0 == [history |-> history, oponent_history |-> oponent_history]
      st1 == update_history(st0, a1, name2, action1, action2)
      st2 == update_history(st1, a2, name1, action2, action1)
      found == in_matrix(action1, action2)
      payoffs == IF found THEN get_payoffs(action1, action2) ELSE <<0, 0>>
      sc1 == update_score(score, a1, payoffs[1])
      sc2 == update_score(sc1, a2, payoffs[2])
  IN  [history |-> st2.history, oponent_history |-> st2.oponent_history,
       score |-> IF found THEN sc2 ELSE score, rng |-> rng2,
       action1 |-> action1, action2 |-> action2,
       payoff1 |-> payoffs[1], payoff2 |-> payoffs[2],
       error |-> IF found THEN "none" ELSE "KeyError"]

\* the inner loop over self.agents[i:], an off-by-one slice
InnerRange_from_self(a1) == a1..N

\* run(): the positions of self.agents[i+1:], the inner loop's range for agent1 = agents[a1]
InnerRange(a1) == (a1 + 1)..N

Min(S) == CHOOSE x \in S : \A y \in S : x <= y

\* run(): the loops' positions. A position is <<round, a1, a2>>; Done: the loops are over.
Done == <<>>

FirstOfRound(r) ==
  LET outer == {a \in Idx : InnerRange(a) # {}}
  IN  IF r < rounds /\ outer # {}
        THEN <<r, Min(outer), Min(InnerRange(Min(outer)))>>
        ELSE Done

\* the loops nested the other way round: a pair plays all its rounds before the next pair
NextPosition_pair_major(r, a1, a2) ==
  LET inner == {b \in InnerRange(a1) : b > a2}
      outer == {a \in Idx : a > a1 /\ InnerRange(a) # {}}
  IN  IF r + 1 < rounds THEN <<r + 1, a1, a2>>
      ELSE IF inner # {} THEN <<0, a1, Min(inner)>>
      ELSE IF outer # {} THEN <<0, Min(outer), Min(InnerRange(Min(outer)))>>
      ELSE Done

NextPosition(r, a1, a2) ==
  LET inner == {b \in InnerRange(a1) : b > a2}
      outer == {a \in Idx : a > a1 /\ InnerRange(a) # {}}
  IN  IF inner # {} THEN <<r, a1, Min(inner)>>
      ELSE IF outer # {} THEN <<r, Min(outer), Min(InnerRange(Min(outer)))>>
      ELSE FirstOfRound(r + 1)

\* the agent state a caller reads when run() returns
Snapshot(h, oh, sc) == [history |-> h, oponent_history |-> oh, score |-> sc]

\* first_return once a run() has returned leaving histories h, oh and scores sc
Returned(h, oh, sc) == IF runs = 0 THEN <<Snapshot(h, oh, sc)>> ELSE first_return

\* visualize_games: opponent = next(op for op in self.agents if op.name == opponent_name)
OpponentOf(opponent_name) == Min({b \in Idx : agents[b].name = opponent_name})

\* the score lists with each round's payoff appended as it is, not added to the last
RECURSIVE CumulativeScores_not_summed(_, _, _, _)
CumulativeScores_not_summed(agent_actions, opponent_actions, c, k) ==
  IF k = 0
    THEN <<0>>
    ELSE Append(CumulativeScores_not_summed(agent_actions, opponent_actions, c, k - 1),
                get_payoffs(agent_actions[k], opponent_actions[k])[c])

\* visualize_games: the cumulative scores after the first k rounds of the two
\* action lists; c = 1 for agent_scores (payoff1), c = 2 for opponent_scores (payoff2)
RECURSIVE CumulativeScores(_, _, _, _)
CumulativeScores(agent_actions, opponent_actions, c, k) ==
  IF k = 0
    THEN <<0>>
    ELSE LET prev == CumulativeScores(agent_actions, opponent_actions, c, k - 1)
         IN  Append(prev, Last(prev) + get_payoffs(agent_actions[k], opponent_actions[k])[c])

\* visualize_games: the (agent, opponent_name) pairs of the two loops
Figures ==
  {q \in Idx \X {NamePool[k] : k \in DOMAIN NamePool} : q[2] \in DOMAIN history[q[1]]}

\* visualize_games: the series of every (agent, opponent_name) figure
GameSeries ==
  [p \in Figures |->
     LET agent_actions == history[p[1]][p[2]]
         opponent_actions == history[OpponentOf(p[2])][agents[p[1]].name]
     IN  [agent_scores |->
            CumulativeScores(agent_actions, opponent_actions, 1, Len(agent_actions)),
          opponent_scores |->
            CumulativeScores(agent_actions, opponent_actions, 2, Len(agent_actions))]]

\* visualize_games: the exception that figure p raises, "none" if none: KeyError
\* from opponent.history[agent.name] or from get_payoffs, IndexError from
\* opponent_actions[i]
FigureFault(p) ==
  LET opp == OpponentOf(p[2])
      me == agents[p[1]].name
  IN  IF me \notin DOMAIN history[opp]
        THEN "KeyError"
        ELSE LET xs == history[p[1]][p[2]]
                 ys == history[opp][me]
                 bad == {k \in 1..Len(xs) : k > Len(ys) \/ ~in_matrix(xs[k], ys[k])}
             IN  IF bad = {} THEN "none"
                 ELSE IF Min(bad) > Len(ys) THEN "IndexError"
                 ELSE "KeyError"

FaultyFigures == {p \in Figures : FigureFault(p) # "none"}

\* the first faulty figure in the order of the loops: agents in list order, their
\* history keys in insertion order (the order of the first round's pairs)
FirstFaulty ==
  LET key(p) == Min({b \in Idx \ {p[1]} : agents[b].name = p[2]})
  IN  CHOOSE p \in FaultyFigures :
        \A q \in FaultyFigures :
          p[1] < q[1] \/ (p[1] = q[1] /\ key(p) <= key(q))

\* a factory that creates an agent for any name
Registered_any(name) == TRUE

\* AgentFactory.create: name is a registered class (else ValueError)
Registered(name) == name \in agent_classes

\* ------------------------------------------------------------------- Init
Seeds == [1..SeedLen -> Actions]

AgentLists ==
  UNION {[1..n -> agent_classes \ {"Random"}] : n \in 1..MaxAgents}
    \cup UNION {[1..n -> agent_classes] : n \in 1..MaxAgentsWithRandom}

\* PrisonersDilemma.__init__ over the configurations explored: agents with
\* pairwise distinct names of every registered class, a complete matrix, rounds >= 1
Init ==
  /\ \E types \in AgentLists :
       /\ agents = [k \in DOMAIN types |-> [type |-> types[k], name |-> NamePool[k]]]
       /\ \E seed \in Seeds :
            /\ (\A k \in DOMAIN types : types[k] # "Random")
                 => seed = [k \in 1..SeedLen |-> "cooperate"]
            /\ rng = [seed |-> seed, pos |-> 0]
  /\ payoff_matrix \in Matrices
  /\ rounds \in 1..MaxRounds
  /\ history = [k \in DOMAIN agents |-> <<>>]
  /\ oponent_history = [k \in DOMAIN agents |-> <<>>]
  /\ score = [k \in DOMAIN agents |-> 0]
  /\ pc = "idle"
  /\ error = "none"
  /\ round_no = 0 /\ idx1 = 0 /\ idx2 = 0
  /\ runs = 0
  /\ calls = <<>>
  /\ received = [a \in DOMAIN agents |-> [b \in DOMAIN agents |-> <<>>]]
  /\ first_return = <<>>
  /\ series = <<>>

\* a class name that no @factory.register names
Unregistered == "Pavlov"

\* the standard matrix without its "defect" row, and without its defect/defect entry
NoDefectRowMatrix == "cooperate" :> StandardMatrix["cooperate"]

NoMutualDefectMatrix ==
  ("cooperate" :> StandardMatrix["cooperate"]) @@
  ("defect" :> ("cooperate" :> <<5, 0>>))

ConfigMatrices == Matrices \cup {NoDefectRowMatrix, NoMutualDefectMatrix}

ConfigLists ==
  UNION {[1..n -> (agent_classes \ {"Random"}) \cup {Unregistered}] :
           n \in 1..MaxAgentsAnyConfig}

\* the ways n agents can share names, one per pattern: agent k is named NamePool[f[k]],
\* its own k or the k of an earlier agent that has its own
NameLists(n) ==
  {f \in [1..n -> 1..n] : \A k \in 1..n : f[k] <= k /\ f[f[k]] = f[k]}

\* a configuration as load_config returns it, before PrisonersDilemma(config, factory):
\* any class names, names that may repeat, a matrix that may lack entries
InitConfig ==
  /\ \E types \in ConfigLists :
       \E f \in NameLists(Len(types)) :
         agents = [k \in DOMAIN types |-> [type |-> types[k], name |-> NamePool[f[k]]]]
  /\ rng = [seed |-> [k \in 1..SeedLen |-> "cooperate"], pos |-> 0]
  /\ payoff_matrix \in ConfigMatrices
  /\ rounds \in 1..MaxRounds
  /\ history = <<>>
  /\ oponent_history = <<>>
  /\ score = <<>>
  /\ pc = "new"
  /\ error = "none"
  /\ round_no = 0 /\ idx1 = 0 /\ idx2 = 0
  /\ runs = 0
  /\ calls = <<>>
  /\ received = <<>>
  /\ first_return = <<>>
  /\ series = <<>>

\* ---------------------------------------------------------------- actions
\* run() is called: the loops take their first position (or are over at once)
run_begin ==
  /\ pc = "idle"
  /\ runs < MaxRuns
  /\ LET p == FirstOfRound(0)
     IN  IF p = Done
           THEN /\ runs' = runs + 1
                /\ first_return' = Returned(history, oponent_history, score)
                /\ UNCHANGED <<pc, round_no, idx1, idx2>>
           ELSE /\ pc' = "running"
                /\ round_no' = p[1] /\ idx1' = p[2] /\ idx2' = p[3]
                /\ UNCHANGED <<runs, first_return>>
  /\ calls' = <<>>
  /\ series' = <<>>
  /\ UNCHANGED <<config, history, oponent_history, score, rng, received, error>>

\* one iteration of run()'s inner loop: play_round(agent1, agent2), then the
\* loops advance; run() returns after the last one. A KeyError of get_payoffs
\* leaves play_round and run() at once.
run_step ==
  /\ pc = "running"
  /\ LET res == play_round(idx1, idx2)
         p == NextPosition(round_no, idx1, idx2)
         rc1 == [received EXCEPT ![idx1][idx2] = Append(@, res.payoff1)]
         rc2 == [rc1 EXCEPT ![idx2][idx1] = Append(@, res.payoff2)]
     IN  /\ history' = res.history
         /\ oponent_history' = res.oponent_history
         /\ score' = res.score
         /\ rng' = res.rng
         /\ calls' = Append(calls, <<idx1, idx2>>)
         /\ IF res.error # "none"
              THEN /\ pc' = "failed"
                   /\ error' = res.error
                   /\ UNCHANGED <<received, runs, first_return, round_no, idx1, idx2>>
              ELSE /\ received' = rc2
                   /\ error' = error
                   /\ IF p = Done
                        THEN /\ pc' = "idle"
                             /\ runs' = runs + 1
                             /\ first_return' =
                                  Returned(res.history, res.oponent_history, res.score)
                             /\ round_no' = 0 /\ idx1' = 0 /\ idx2' = 0
                        ELSE /\ round_no' = p[1] /\ idx1' = p[2] /\ idx2' = p[3]
                             /\ UNCHANGED <<pc, runs, first_return>>
  /\ UNCHANGED <<config, series>>

\* visualize_games() is called on the game (between runs, as in __main__); a
\* failed lookup in a figure raises out of the call
visualize_games ==
  /\ pc = "idle"
  /\ series = <<>>
  /\ IF FaultyFigures = {}
       THEN /\ series' = <<GameSeries>>
            /\ UNCHANGED <<pc, error>>
       ELSE /\ pc' = "failed"
            /\ error' = FigureFault(FirstFaulty)
            /\ UNCHANGED series
  /\ UNCHANGED <<config, history, oponent_history, score, rng, round_no, idx1,
                 idx2, runs, calls, received, first_return>>

\* PrisonersDilemma(config, factory): __init__ creates the agents through the
\* factory, which raises ValueError for a class that is not registered
construct ==
  /\ pc = "new"
  /\ IF \E k \in DOMAIN agents : ~Registered(agents[k].type)
       THEN /\ pc' = "failed"
            /\ error' = "ValueError"
            /\ UNCHANGED <<history, oponent_history, score, received>>
       ELSE /\ pc' = "idle"
            /\ error' = error
            /\ history' = [k \in DOMAIN agents |-> <<>>]
            /\ oponent_history' = [k \in DOMAIN agents |-> <<>>]
            /\ score' = [k \in DOMAIN agents |-> 0]
            /\ received' = [a \in DOMAIN agents |-> [b \in DOMAIN agents |-> <<>>]]
  /\ UNCHANGED <<config, rng, round_no, idx1, idx2, runs, calls, first_return, series>>

Next == run_begin \/ run_step \/ visualize_games

Spec == Init /\ [][Next]_vars

NextConfig == construct \/ run_begin \/ run_step \/ visualize_games

SpecConfig == InitConfig /\ [][NextConfig]_vars

\* ============================================================ properties
Played(a, b) == agents[b].name \in DOMAIN history[a]

\* ---- C1
\* C1: with pairwise distinct names, after any number of play_round steps, for all
\* distinct agents A, B that have played, the four lists history/oponent_history of
\* A against B and of B against A have one length, and A.history[B][k] equals
\* B.oponent_history[A][k] for every k.
C1_HistoriesMirror ==
  \A a, b \in Idx :
    (a # b /\ Played(a, b)) =>
      LET na == agents[a].name
          nb == agents[b].name
      IN  /\ nb \in DOMAIN oponent_history[a]
          /\ na \in DOMAIN history[b]
          /\ na \in DOMAIN oponent_history[b]
          /\ Len(history[a][nb]) = Len(oponent_history[a][nb])
          /\ Len(oponent_history[a][nb]) = Len(history[b][na])
          /\ Len(history[b][na]) = Len(oponent_history[b][na])
          /\ \A k \in 1..Len(history[a][nb]) : history[a][nb][k] = oponent_history[b][na][k]

\* two agents have played at least two rounds and did not always act alike
C1_Witness ==
  \E a, b \in Idx :
    /\ a # b /\ Played(a, b)
    /\ Len(history[a][agents[b].name]) >= 2
    /\ \E k \in 1..Len(history[a][agents[b].name]) :
         history[a][agents[b].name][k] # oponent_history[a][agents[b].name][k]

\* ---- C2
\* the map f as it was before round k against opponent o was recorded
PriorView(f, o, k) ==
  IF k = 1
    THEN [x \in DOMAIN f \ {o} |-> f[x]]
    ELSE [f EXCEPT ![o] = SubSeq(@, 1, k - 1)]

\* C2 (simultaneity): every recorded action of a non-random agent is what its rule
\* gives on the histories of the rounds before that one: it does not depend on the
\* other agent's action of the same round, so the order of the two choose_action
\* calls of a play_round does not matter.
C2_Simultaneity ==
  \A a \in Idx :
    agents[a].type # "Random" =>
      \A o \in DOMAIN history[a] :
        \A k \in 1..Len(history[a][o]) :
          history[a][o][k] =
            choose_action(agents[a].type, PriorView(history[a], o, k),
                          PriorView(oponent_history[a], o, k), o, rng)

\* a history-dependent agent2 has recorded a round in which it did not play
\* what agent1 played in that round
C2_Witness ==
  \E a, b \in Idx :
    /\ a < b /\ Played(b, a)
    /\ agents[b].type \in {"TitForTat", "Grudger"}
    /\ agents[a].type # "Random"
    /\ \E k \in 1..Len(history[b][agents[a].name]) :
         history[b][agents[a].name][k] # oponent_history[b][agents[a].name][k]

\* ---- C3
\* the payoff agents[a] received for playing x against agents[b] playing y
PayoffOf(a, b, x, y) ==
  IF a < b THEN payoff_matrix[x][y][1] ELSE payoff_matrix[y][x][2]

\* the payoffs of rounds lo..hi that agents[a] (lists h, oh against agents[b]) received
RECURSIVE SumRounds(_, _, _, _, _, _)
SumRounds(a, b, h, oh, lo, hi) ==
  IF hi < lo
    THEN 0
    ELSE SumRounds(a, b, h, oh, lo, hi - 1) + PayoffOf(a, b, h[hi], oh[hi])

RECURSIVE SumOver(_, _)
SumOver(S, f) ==
  IF S = {}
    THEN 0
    ELSE LET x == CHOOSE y \in S : TRUE IN f[x] + SumOver(S \ {x}, f)

\* agents[a]'s score recomputed from the retained histories and the payoff matrix
Recomputed(a) ==
  SumOver(DOMAIN history[a],
          [o \in DOMAIN history[a] |->
             SumRounds(a, OpponentOf(o), history[a][o], oponent_history[a][o],
                       1, Len(history[a][o]))])

\* C3: after a full run(), each agent's score is the sum over every recorded round
\* against every opponent of the payoff it received, recomputed from the histories
\* and the matrix (first component as the earlier agent of the list, second as the later).
C3_ScoreAdditive ==
  (pc = "idle" /\ runs >= 1) => \A a \in Idx : score[a] = Recomputed(a)

\* a full run of three agents has returned and some agent has a nonzero score
C3_Witness ==
  /\ pc = "idle" /\ runs >= 1 /\ N = 3 /\ rounds >= 2
  /\ \E a, b \in Idx : score[a] # 0 /\ score[a] # score[b]

\* ---- C4
PairCount == (N * (N - 1)) \div 2

\* C4: one run() of n agents and r rounds makes exactly r*n*(n-1)/2 play_round
\* calls; in each round every unordered pair of distinct agents is played exactly
\* once, never an agent with itself, never a pair in both orders.
C4_RoundRobin ==
  (pc = "idle" /\ runs >= 1) =>
    /\ Len(calls) = rounds * PairCount
    /\ \A r \in 0..(rounds - 1) :
         \A a, b \in Idx :
           Cardinality({k \in (r * PairCount + 1)..((r + 1) * PairCount) :
                          calls[k] = <<a, b>> \/ calls[k] = <<b, a>>})
             = IF a = b THEN 0 ELSE 1

\* a run of three agents over at least two rounds has returned
C4_Witness ==
  pc = "idle" /\ runs >= 1 /\ N = 3 /\ rounds >= 2 /\ Len(calls) = rounds * 3

\* ---- C5
\* C5: a TitForTat agent playing a Defector cooperates in the first round and defects
\* in every later one, the Defector defects in every round; with the standard matrix,
\* these two agents and 3 rounds the final scores are TitForTat 2, Defector 7.
C5_TitForTatVsDefector ==
  \A t, d \in Idx :
    (agents[t].type = "TitForTat" /\ agents[d].type = "Defector" /\ Played(t, d)) =>
      LET nt == agents[t].name
          nd == agents[d].name
      IN  /\ \A k \in 1..Len(history[t][nd]) :
               history[t][nd][k] = IF k = 1 THEN "cooperate" ELSE "defect"
          /\ \A k \in 1..Len(history[d][nt]) : history[d][nt][k] = "defect"
          /\ (/\ N = 2 /\ payoff_matrix = StandardMatrix /\ rounds = 3
              /\ pc = "idle" /\ runs = 1)
               => (score[t] = 2 /\ score[d] = 7)

\* the scenario has been run: TitForTat against Defector, standard matrix, 3 rounds
C5_Witness ==
  /\ N = 2 /\ payoff_matrix = StandardMatrix /\ rounds = 3 /\ pc = "idle" /\ runs = 1
  /\ \E t, d \in Idx :
       /\ agents[t].type = "TitForTat" /\ agents[d].type = "Defector"
       /\ Len(history[t][agents[d].name]) = 3

\* ---- C6
\* the payoffs agents[a] received in rounds lo[o]..hi[o] against every opponent o
RangeSum(a, lo, hi) ==
  SumOver(DOMAIN history[a],
          [o \in DOMAIN history[a] |->
             SumRounds(a, OpponentOf(o), history[a][o], oponent_history[a][o],
                       lo[o], hi[o])])

\* the second run() has just returned
AfterSecondRun == pc = "idle" /\ runs = 2

\* C6 as stated: after the second run() every per-opponent history is exactly twice
\* as long as after the first, and every score is exactly twice the first run's score.
C6_RunTwiceDoubles ==
  AfterSecondRun =>
    \A a \in Idx :
      /\ DOMAIN history[a] = DOMAIN first_return[1].history[a]
      /\ \A o \in DOMAIN history[a] :
           /\ Len(history[a][o]) = 2 * Len(first_return[1].history[a][o])
           /\ Len(oponent_history[a][o]) = 2 * Len(first_return[1].oponent_history[a][o])
      /\ score[a] = 2 * first_return[1].score[a]

\* C6 (amended): after the second run() every per-opponent history is exactly twice
\* as long as after the first and begins with the first run's history; every score
\* is the first run's score plus the payoffs of the second run's rounds, which is
\* twice the first run's score when every agent is a Cooperator or a Defector.
C6_RunTwiceAccumulates ==
  AfterSecondRun =>
    \A a \in Idx :
      LET r1 == first_return[1]
      IN  /\ DOMAIN history[a] = DOMAIN r1.history[a]
          /\ DOMAIN oponent_history[a] = DOMAIN r1.oponent_history[a]
          /\ \A o \in DOMAIN history[a] :
               /\ Len(history[a][o]) = 2 * Len(r1.history[a][o])
               /\ Len(oponent_history[a][o]) = 2 * Len(r1.oponent_history[a][o])
               /\ SubSeq(history[a][o], 1, Len(r1.history[a][o])) = r1.history[a][o]
               /\ SubSeq(oponent_history[a][o], 1, Len(r1.oponent_history[a][o]))
                    = r1.oponent_history[a][o]
          /\ score[a] =
               r1.score[a] +
                 RangeSum(a, [o \in DOMAIN history[a] |-> Len(r1.history[a][o]) + 1],
                          [o \in DOMAIN history[a] |-> Len(history[a][o])])
          /\ (\A b \in Idx : agents[b].type \in {"Cooperator", "Defector"})
               => score[a] = 2 * r1.score[a]

\* run() has returned twice on three agents and some score is not twice what it
\* was after the first run
C6_Witness ==
  /\ AfterSecondRun /\ N = 3
  /\ \E a \in Idx :
       /\ first_return[1].score[a] # 0
       /\ score[a] # 2 * first_return[1].score[a]
       /\ score[a] # first_return[1].score[a]

\* ---- C7
\* C7: for a Grudger and an opponent o, every recorded action of the Grudger against
\* o is defect when a defect of o was recorded before that round and cooperate when
\* none was; and in every state choose_action(o) returns defect if a defect of o is
\* recorded, cooperate if not, whatever o played after its first defect.
C7_Grudger ==
  \A g \in Idx :
    agents[g].type = "Grudger" =>
      /\ \A o \in DOMAIN history[g] :
           /\ \A k \in 1..Len(history[g][o]) :
                history[g][o][k] =
                  IF \E m \in 1..(k - 1) : oponent_history[g][o][m] = "defect"
                    THEN "defect" ELSE "cooperate"
           /\ choose_action("Grudger", history[g], oponent_history[g], o, rng) =
                IF \E m \in 1..Len(oponent_history[g][o]) : oponent_history[g][o][m] = "defect"
                  THEN "defect" ELSE "cooperate"
      /\ \A b \in Idx :
           ~Played(g, b) =>
             choose_action("Grudger", history[g], oponent_history[g], agents[b].name, rng)
               = "cooperate"

\* a Grudger's opponent defected, cooperated afterwards, and a later round is recorded
C7_Witness ==
  \E g \in Idx :
    /\ agents[g].type = "Grudger"
    /\ \E o \in DOMAIN history[g] :
         \E m \in 1..Len(history[g][o]) :
           /\ oponent_history[g][o][m] = "defect"
           /\ m + 2 <= Len(history[g][o])
           /\ oponent_history[g][o][m + 1] = "cooperate"
           /\ history[g][o][m + 2] = "defect"

\* ---- C8
\* C8: a TitForTat agent's action in its first round against o is cooperate, and its
\* action in every later round k equals o's own recorded action of round k-1 against it.
C8_TitForTat ==
  \A t \in Idx :
    agents[t].type = "TitForTat" =>
      \A o \in DOMAIN history[t] :
        \A k \in 1..Len(history[t][o]) :
          history[t][o][k] =
            IF k = 1 THEN "cooperate"
            ELSE history[OpponentOf(o)][agents[t].name][k - 1]

\* a TitForTat agent retaliated in one round and cooperated again in the next
C8_Witness ==
  \E t \in Idx :
    /\ agents[t].type = "TitForTat"
    /\ \E o \in DOMAIN history[t] :
         \E k \in 2..(Len(history[t][o]) - 1) :
           history[t][o][k] = "defect" /\ history[t][o][k + 1] = "cooperate"

\* ---- C9
\* C9: TitForTwoTats' choose_action(o) returns defect exactly when at least two rounds
\* against o are recorded and o's two most recent recorded actions are both defect;
\* so does every action it has recorded.
C9_TitForTwoTats ==
  \A t \in Idx :
    agents[t].type = "TitForTwoTats" =>
      /\ \A o \in DOMAIN history[t] :
           /\ \A k \in 1..Len(history[t][o]) :
                (history[t][o][k] = "defect") <=>
                  (/\ k >= 3
                   /\ oponent_history[t][o][k - 1] = "defect"
                   /\ oponent_history[t][o][k - 2] = "defect")
           /\ LET n == Len(oponent_history[t][o])
              IN  (choose_action("TitForTwoTats", history[t], oponent_history[t], o, rng)
                     = "defect") <=>
                    (/\ n >= 2
                     /\ oponent_history[t][o][n] = "defect"
                     /\ oponent_history[t][o][n - 1] = "defect")
      /\ \A b \in Idx :
           ~Played(t, b) =>
             choose_action("TitForTwoTats", history[t], oponent_history[t], agents[b].name, rng)
               = "cooperate"

\* a TitForTwoTats agent cooperated with one defect of the opponent recorded and
\* defected once two were
C9_Witness ==
  \E t \in Idx :
    /\ agents[t].type = "TitForTwoTats"
    /\ \E o \in DOMAIN history[t] :
         /\ Len(history[t][o]) >= 3
         /\ oponent_history[t][o][1] = "defect"
         /\ history[t][o][2] = "cooperate"
         /\ history[t][o][3] = "defect"

\* ---- C10
\* <<0, s[1], s[1]+s[2], ...>> up to the first k elements of s
RECURSIVE PrefixSums(_, _)
PrefixSums(s, k) ==
  IF k = 0 THEN <<0>>
  ELSE LET prev == PrefixSums(s, k - 1) IN Append(prev, Last(prev) + s[k])

\* payoff_matrix[a][b] is payoff_matrix[b][a] reversed, for all actions a, b
SymmetricMatrix ==
  \A x, y \in Actions :
    payoff_matrix[x][y] = <<payoff_matrix[y][x][2], payoff_matrix[y][x][1]>>

\* C10 as stated: for every ordered pair (A, O) that has played and every accepted
\* payoff matrix, the series visualize_games derives for A starts at 0 and its value
\* after round k is the sum of the payoffs A received in rounds 0..k against O.
C10_SeriesIsReceived ==
  Len(series) = 1 =>
    \A p \in DOMAIN series[1] :
      series[1][p].agent_scores =
        PrefixSums(received[p[1]][OpponentOf(p[2])],
                   Len(received[p[1]][OpponentOf(p[2])]))

\* C10 (amended): the same, for every payoff matrix that is symmetric under swapping
\* roles; under any other matrix, for the pairs in which A precedes O in the agent list.
C10_SeriesIsReceivedIfSymmetric ==
  Len(series) = 1 =>
    \A p \in DOMAIN series[1] :
      (SymmetricMatrix \/ p[1] < OpponentOf(p[2])) =>
        series[1][p].agent_scores =
          PrefixSums(received[p[1]][OpponentOf(p[2])],
                     Len(received[p[1]][OpponentOf(p[2])]))

\* visualize_games has derived, under a symmetric matrix, the series of an agent
\* that is the later one of its pair and whose payoffs differ from its opponent's
C10_Witness ==
  /\ Len(series) = 1 /\ SymmetricMatrix
  /\ \E p \in DOMAIN series[1] :
       /\ p[1] > OpponentOf(p[2])
       /\ Len(series[1][p].agent_scores) >= 4
       /\ Last(series[1][p].agent_scores) # Last(series[1][p].opponent_scores)
       /\ Last(series[1][p].agent_scores) # 0

\* ---- C11
\* payoff_matrix has all four (action, action) entries
CompleteMatrix == \A x, y \in Actions : in_matrix(x, y)

\* C11 as stated: a configuration whose payoff_matrix lacks one of the four entries
\* fails at construction, before any play_round is executed, so that under an
\* incomplete matrix no play_round is ever called and no history or score modified.
C11_IncompleteMatrixRejected ==
  ~CompleteMatrix =>
    /\ calls = <<>>
    /\ \A a \in DOMAIN history : history[a] = <<>> /\ oponent_history[a] = <<>>
    /\ \A a \in DOMAIN score : score[a] = 0

\* ---- C12
\* C12: when the configuration names a class that was never registered, create
\* raises during construction: no game is constructed, the error is create's
\* ValueError, and no play_round or other simulation step ever happens.
C12_UnknownKindRaises ==
  (\E k \in DOMAIN agents : agents[k].type \notin agent_classes) =>
    /\ pc \in {"new", "failed"}
    /\ pc = "failed" => error = "ValueError"
    /\ history = <<>> /\ oponent_history = <<>> /\ score = <<>>
    /\ calls = <<>> /\ runs = 0 /\ series = <<>>

\* construction has failed on a list whose first class is registered and whose
\* second is not
C12_Witness ==
  /\ pc = "failed" /\ error = "ValueError"
  /\ N = 2
  /\ agents[1].type \in agent_classes
  /\ agents[2].type \notin agent_classes

\* ---- C13
DuplicateNames == \E a, b \in DOMAIN agents : a # b /\ agents[a].name = agents[b].name

\* C13 as stated: a configuration in which two agents share a name is rejected
\* before any play_round is executed: with a repeated name no play_round is called.
C13_DuplicateNamesRejected ==
  DuplicateNames => calls = <<>>

\* ---- C14
\* C14 as stated: in every reachable state of every run the driver constructs, no
\* agent has a history or opponent-history entry keyed by its own name.
C14_NoSelfHistory ==
  \A a \in DOMAIN history :
    /\ agents[a].name \notin DOMAIN history[a]
    /\ agents[a].name \notin DOMAIN oponent_history[a]

\* ---- C20
\* C20 as stated: when the payoff lookup of a play_round fails, both agents'
\* histories and scores are left exactly as they were before that play_round call.
C20_AtomicOnError ==
  [][(pc = "running" /\ pc' = "failed") =>
       (history' = history /\ oponent_history' = oponent_history /\ score' = score)]_vars

\* ---- C15
\* the names a choose_action call may be given
Names == {NamePool[k] : k \in DOMAIN NamePool}

\* C15: a Cooperator's choose_action returns cooperate and a Defector's returns
\* defect for every opponent name (met, never met, or its own) in every state
\* its histories reach, and every action they have recorded is that action.
C15_ConstantStrategies ==
  \A a \in DOMAIN history :
    /\ agents[a].type = "Cooperator" =>
         /\ \A o \in Names :
              choose_action(agents[a].type, history[a], oponent_history[a], o, rng) = "cooperate"
         /\ \A o \in DOMAIN history[a] :
              \A k \in DOMAIN history[a][o] : history[a][o][k] = "cooperate"
    /\ agents[a].type = "Defector" =>
         /\ \A o \in Names :
              choose_action(agents[a].type, history[a], oponent_history[a], o, rng) = "defect"
         /\ \A o \in DOMAIN history[a] :
              \A k \in DOMAIN history[a][o] : history[a][o][k] = "defect"

\* a Cooperator has been defected against twice by a Defector it kept cooperating with
C15_Witness ==
  \E a, b \in DOMAIN history :
    /\ agents[a].type = "Cooperator" /\ agents[b].type = "Defector"
    /\ agents[a].name # agents[b].name
    /\ Played(a, b) /\ Played(b, a)
    /\ Len(history[a][agents[b].name]) >= 2
    /\ oponent_history[a][agents[b].name][1] = "defect"
    /\ oponent_history[b][agents[a].name][2] = "cooperate"

\* ---- C16
\* the list f keeps for opponent o, empty while there is none
ListOf(f, o) == IF o \in DOMAIN f THEN f[o] ELSE <<>>

\* t is s, or s with exactly one element added at its end
SameOrAppended(s, t) ==
  \/ t = s
  \/ Len(t) = Len(s) + 1 /\ SubSeq(t, 1, Len(s)) = s

\* C16: in every step, each history list and each oponent_history list of each
\* agent is unchanged or extended by exactly one element at its end, no list is
\* ever removed, and the two lists an agent keeps for an opponent exist together.
C16_AppendOnly ==
  [][\A a \in DOMAIN history \cap DOMAIN history' :
       /\ DOMAIN history[a] \subseteq DOMAIN history'[a]
       /\ DOMAIN oponent_history[a] \subseteq DOMAIN oponent_history'[a]
       /\ DOMAIN history'[a] = DOMAIN oponent_history'[a]
       /\ \A o \in Names :
            /\ SameOrAppended(ListOf(history[a], o), ListOf(history'[a], o))
            /\ SameOrAppended(ListOf(oponent_history[a], o), ListOf(oponent_history'[a], o))]_vars

\* an agent's list has been extended past a first element by a different one
C16_Witness ==
  \E a \in DOMAIN history :
    \E o \in DOMAIN history[a] :
      /\ Len(history[a][o]) >= 3
      /\ history[a][o][1] # history[a][o][3]
      /\ oponent_history[a][o][1] # oponent_history[a][o][2]

\* ---- C17
\* the pairs (i, j), i < j, of positions in the agent list
Pairs == {p \in Idx \X Idx : p[1] < p[2]}

\* p comes before q in lexicographic order
LexBefore(p, q) == p[1] < q[1] \/ (p[1] = q[1] /\ p[2] < q[2])

\* the place (from 1) of pair p in the lexicographic enumeration of Pairs
LexIndex(p) == Cardinality({q \in Pairs : LexBefore(q, p)}) + 1

\* the number of rounds pair p has played once `done` runs are over and the
\* current run is about to play pair `at` in round r
RoundsPlayed(p, done, r, at) ==
  done * rounds + r + (IF LexBefore(p, at) THEN 1 ELSE 0)

\* C17: always, the play_round calls of a run come round by round, and inside a round in
\* lexicographic order of the pairs (i, j), i < j, of the agent list: the m-th call
\* is the pair at place ((m-1) mod n(n-1)/2)+1 of that order. Hence while the run
\* is about to play pair (idx1, idx2) in round r, every pair before it has r+1
\* elements of this run in its per-pair histories and every other pair has r, so
\* that the element appended in scheduled round r is element r+1 of the run.
C17_Schedule ==
  [](
      /\ \A m \in DOMAIN calls :
           calls[m] \in Pairs /\ LexIndex(calls[m]) = ((m - 1) % PairCount) + 1
      /\ pc = "running" =>
           /\ <<idx1, idx2>> \in Pairs
           /\ Len(calls) = round_no * PairCount + LexIndex(<<idx1, idx2>>) - 1
           /\ \A p \in Pairs :
                /\ Len(ListOf(history[p[1]], agents[p[2]].name))
                     = RoundsPlayed(p, runs, round_no, <<idx1, idx2>>)
                /\ Len(ListOf(history[p[2]], agents[p[1]].name))
                     = RoundsPlayed(p, runs, round_no, <<idx1, idx2>>)
      /\ pc = "idle" =>
           \A p \in Pairs :
             /\ Len(ListOf(history[p[1]], agents[p[2]].name)) = runs * rounds
             /\ Len(ListOf(history[p[2]], agents[p[1]].name)) = runs * rounds
  )

\* three agents, in the middle of the second round of a run: pairs (1,2) and (1,3)
\* have played it, pair (2,3) has not
C17_Witness ==
  /\ pc = "running" /\ N = 3 /\ round_no = 1
  /\ idx1 = 2 /\ idx2 = 3
  /\ Len(calls) = 5
  /\ Len(history[1][agents[3].name]) = Len(history[2][agents[3].name]) + 1

\* ---- C18
\* f with only its list for opponent o kept
Only(f, o) == [q \in DOMAIN f \cap {o} |-> f[q]]

\* f with the list of every opponent other than o replaced by the list l
OthersReplaced(f, o, l) == [q \in DOMAIN f |-> IF q = o THEN f[q] ELSE l]

\* C18: always, for every agent of a class other than Random and every agent name o of
\* the game (its opponents, and its own name as a name it never met),
\* choose_action(o) leaves the generator alone (the call returns an action and
\* assigns nothing), and returns one and the same action on the agent's
\* histories, on its histories with the lists for all other opponents removed,
\* and on its histories with those lists replaced by another list.
C18_ChooseDependsOnOpponentOnly ==
  [](
      \A a \in Idx :
        agents[a].type # "Random" =>
          /\ rng_after(agents[a].type, rng) = rng
          /\ \A b \in Idx :
               Cardinality(
                 {choose_action(agents[a].type, history[a], oponent_history[a],
                                agents[b].name, rng),
                  choose_action(agents[a].type, Only(history[a], agents[b].name),
                                Only(oponent_history[a], agents[b].name),
                                agents[b].name, rng),
                  choose_action(agents[a].type,
                                OthersReplaced(history[a], agents[b].name, <<"defect">>),
                                OthersReplaced(oponent_history[a], agents[b].name, <<"defect">>),
                                agents[b].name, rng)}) = 1
  )

\* a Grudger, TitForTat or TitForTwoTats agent has histories against two
\* opponents and chooses differently against them
C18_Witness ==
  \E a \in Idx :
    /\ agents[a].type \in {"Grudger", "TitForTat", "TitForTwoTats"}
    /\ \E o, q \in DOMAIN history[a] :
         /\ Len(history[a][o]) >= 2 /\ Len(history[a][q]) >= 2
         /\ choose_action(agents[a].type, history[a], oponent_history[a], o, rng) = "defect"
         /\ choose_action(agents[a].type, history[a], oponent_history[a], q, rng) = "cooperate"

\* ---- C19
\* agent a's lists for the opponents other than o are the same after the step
OtherEntriesKept(a, o) ==
  /\ DOMAIN history'[a] \ {o} = DOMAIN history[a] \ {o}
  /\ DOMAIN oponent_history'[a] \ {o} = DOMAIN oponent_history[a] \ {o}
  /\ \A q \in DOMAIN history[a] \ {o} :
       history'[a][q] = history[a][q] /\ oponent_history'[a][q] = oponent_history[a][q]

\* C19: with pairwise distinct names, play_round(agent1, agent2) leaves history,
\* oponent_history and score of every other agent as they were, and in agent1
\* and agent2 leaves every history entry not keyed by the other's name as it was.
C19_PlayRoundFrame ==
  [][pc = "running" =>
       /\ \A c \in Idx \ {idx1, idx2} :
            /\ history'[c] = history[c]
            /\ oponent_history'[c] = oponent_history[c]
            /\ score'[c] = score[c]
       /\ OtherEntriesKept(idx1, agents[idx2].name)
       /\ OtherEntriesKept(idx2, agents[idx1].name)]_vars

\* play_round(agents 2 and 3) has just scored both while agent 1 holds a score
\* and histories against both of them
C19_Witness ==
  /\ N = 3 /\ calls # <<>> /\ Last(calls) = <<2, 3>>
  /\ score[1] > 0 /\ score[2] > 0 /\ score[3] > 0
  /\ DOMAIN history[1] = {agents[2].name, agents[3].name}
  /\ Len(history[2][agents[1].name]) >= 2
  /\ Len(history[2][agents[3].name]) >= 2

====
